---- MODULE Spec2Model ----
(***************************************************************************)
(* Path-drawing puzzle: the move validation and path state machine of      *)
(* src/src/game/logic.ts (initializeGame, isValidMove, hasWall, makeMove,  *)
(* handleMove, handleReset), the level generator of src/src/game/types.ts  *)
(* (generateLevel) and the pointer input layer of                          *)
(* src/src/components/Cell.tsx (the Grid component).                       *)
(*                                                                         *)
(* Seven specifications share the module.  Spec is a session played through *)
(* makeMove, handleMove and handleReset on a generated level; SpecInit is  *)
(* the same session on any small level; SpecInput is a session played      *)
(* through the pointer handlers and animation frames of the Grid           *)
(* component; SpecHeap runs makeMove over a store of Cell objects, where   *)
(* sharing and writes are visible; SpecGen is one run of generateLevel;    *)
(* SpecSearch is one run of generateHamiltonianPath, step by step;         *)
(* SpecDelivery is the Grid component with the targets it queues and the   *)
(* targets it hands to onMove on record.                                   *)
(* Each specification moves its own variables and leaves the others at     *)
(* their initial values.                                                   *)
(***************************************************************************)
EXTENDS Integers, Sequences, FiniteSets, TLC

VARIABLES
    gameState,  \* the session's GameState (App's useState), a record
    lastCall,   \* history: the last call made and the branch of it that ran
    headMoves,  \* history: calls since initializeGame that appended the path head again
    \* the Grid component (SpecInput); a ref that is null is <<>>, a ref that is
    \* set is a sequence of one value
    isDragging,           \* Grid's useState
    animationFrameRef,    \* the processQueue closure the pending frame will run
    lastProcessedCellRef,
    currentMouseCellRef,
    moveQueueRef,
    sequential, \* history: the state after the delivered targets, applied one at a time
    pushedTargets,    \* history (SpecDelivery): the targets pushed onto the queue
    deliveredTargets, \* history (SpecDelivery): the targets passed to onMove
    \* makeMove over a store of objects (SpecHeap)
    heapCells,  \* the Cell objects allocated so far; an address is an index
    stateRef,   \* the GameState object the caller holds, its grid a map to addresses
    snapshot,   \* a GameState object the caller kept, with its value when kept
    \* one run of generateLevel (SpecGen)
    generation,
    \* one run of generateHamiltonianPath (SpecSearch)
    search

gameVars == <<gameState, lastCall, headMoves>>

inputVars == <<isDragging, animationFrameRef, lastProcessedCellRef,
               currentMouseCellRef, moveQueueRef, sequential,
               pushedTargets, deliveredTargets>>

heapVars == <<heapCells, stateRef, snapshot>>

genVars == <<generation, search>>

vars == <<gameVars, inputVars, heapVars, genVars>>

(***************************************************************************)
(* Bounds of the model.                                                    *)
(***************************************************************************)
\* most calls per game that target the path head and append it again; under
\* SpecInput, most entries a path has beyond the number of cells
MaxHeadMoves == 1

\* the grid sizes explored with every level generateLevel can return, as
\* <<rows, cols>>
GridShapes == {<<2, 2>>, <<2, 3>>}

Difficulties == {"easy", "medium", "hard"}

\* null of Cell.value and Cell.visitedOrder (both are >= 1 when set)
null == 0

Coord(r, c) == [row |-> r, col |-> c]

Cells(rows, cols) == {Coord(r, c) : r \in 0..(rows - 1), c \in 0..(cols - 1)}

Abs(x) == IF x < 0 THEN -x ELSE x

Range(s) == {s[i] : i \in 1..Len(s)}

\* Math.max(...xs) over a non-empty set of numbers
SetMax(S) == CHOOSE m \in S : \A x \in S : x <= m

\* Array.prototype.findIndex with an equality predicate: 0-based, -1 if absent
findIndex(path, target) ==
    IF \E i \in 1..Len(path) : path[i] = target
    THEN (CHOOSE i \in 1..Len(path) :
             path[i] = target /\ \A j \in 1..(i - 1) : path[j] # target) - 1
    ELSE -1

(***************************************************************************)
(* The level generator, as far as it decides which levels a game is        *)
(* played on (src/src/game/types.ts).  Every use of Math.random is a       *)
(* choice; an operator that draws random numbers is the set of its         *)
(* possible results.  Level.id is an opaque random string no code reads    *)
(* and is left out.                                                        *)
(***************************************************************************)
DIRECTIONS ==
    << Coord(-1, 0), Coord(1, 0), Coord(0, -1), Coord(0, 1),
       Coord(-1, -1), Coord(-1, 1), Coord(1, -1), Coord(1, 1) >>

\* the complete paths the randomized depth-first search can return from `path`
RECURSIVE dfs(_, _, _)
dfs(path, rows, cols) ==
    IF Len(path) = rows * cols
    THEN {path}
    ELSE LET current == path[Len(path)]
             nexts == { Coord(current.row + DIRECTIONS[d].row,
                              current.col + DIRECTIONS[d].col) : d \in 1..4 }
             open == { next \in nexts :
                          /\ next.row >= 0 /\ next.row < rows
                          /\ next.col >= 0 /\ next.col < cols
                          /\ next \notin Range(path) }
         IN  UNION { dfs(Append(path, next), rows, cols) : next \in open }

\* the non-null results of generateHamiltonianPath, over every random start
generateHamiltonianPath(rows, cols) ==
    UNION { dfs(<<start>>, rows, cols) : start \in Cells(rows, cols) }

numberCount(totalCells, difficulty) ==
    CASE difficulty = "easy" -> totalCells \div 3
      [] difficulty = "medium" -> totalCells \div 4
      [] difficulty = "hard" -> totalCells \div 5

\* indicesToMark with the add of path.length - 1 left out
indicesToMarkWithoutEnd(path, count) ==
    LET want == IF count < Len(path) THEN count ELSE Len(path)
        size == IF want > 1 THEN want ELSE 1
    IN  { S \in SUBSET (0..(Len(path) - 1)) : 0 \in S /\ Cardinality(S) = size }

\* the sets indicesToMark can end as: both path ends, then random indices
\* until numberCount of them (or the whole path) are marked
indicesToMark(path, count) ==
    LET ends == {0, Len(path) - 1}
        want == IF count < Len(path) THEN count ELSE Len(path)
        size == IF want > Cardinality(ends) THEN want ELSE Cardinality(ends)
    IN  { S \in SUBSET (0..(Len(path) - 1)) : ends \subseteq S /\ Cardinality(S) = size }

\* Array.from(set).sort((a, b) => a - b)
RECURSIVE sortAscending(_)
sortAscending(S) ==
    IF S = {} THEN <<>>
    ELSE LET m == CHOOSE x \in S : \A y \in S : x <= y
         IN  <<m>> \o sortAscending(S \ {m})

\* placeNumbers without the skip of path index 0 in the forEach
placeNumbersKeepingStart(path, indices) ==
    LET sortedIndices == sortAscending(indices)
    IN  <<[row |-> path[1].row, col |-> path[1].col, value |-> 1]>>
        \o [i \in 1..Len(sortedIndices) |->
               [row |-> path[sortedIndices[i] + 1].row,
                col |-> path[sortedIndices[i] + 1].col,
                value |-> i]]

\* initialValues: clue 1 on path[0], then value i+1 on the i-th marked index
placeNumbers(path, indices) ==
    LET sortedIndices == sortAscending(indices)
        first == [row |-> path[1].row, col |-> path[1].col, value |-> 1]
        rest == SelectSeq(
                  [i \in 1..Len(sortedIndices) |->
                      [row |-> path[sortedIndices[i] + 1].row,
                       col |-> path[sortedIndices[i] + 1].col,
                       value |-> i,
                       pathIdx |-> sortedIndices[i]]],
                  LAMBDA e : e.pathIdx # 0)
    IN  <<first>> \o [i \in 1..Len(rest) |->
                        [row |-> rest[i].row, col |-> rest[i].col, value |-> rest[i].value]]

\* isWallBlocking with the last step of the path left out of the loop
isWallBlockingButLastStep(w, path) ==
    \E i \in 1..(Len(path) - 2) :
        LET u == path[i]
            v == path[i + 1]
        IN  IF w.orientation = "horizontal"
            THEN /\ u.col = w.col /\ v.col = w.col
                 /\ \/ (u.row = w.row /\ v.row = w.row + 1)
                    \/ (u.row = w.row + 1 /\ v.row = w.row)
            ELSE /\ u.row = w.row /\ v.row = w.row
                 /\ \/ (u.col = w.col /\ v.col = w.col + 1)
                    \/ (u.col = w.col + 1 /\ v.col = w.col)

\* does wall w lie on an edge the generating path walks
isWallBlocking(w, path) ==
    \E i \in 1..(Len(path) - 1) :
        LET u == path[i]
            v == path[i + 1]
        IN  IF w.orientation = "horizontal"
            THEN /\ u.col = w.col /\ v.col = w.col
                 /\ \/ (u.row = w.row /\ v.row = w.row + 1)
                    \/ (u.row = w.row + 1 /\ v.row = w.row)
            ELSE /\ u.row = w.row /\ v.row = w.row
                 /\ \/ (u.col = w.col /\ v.col = w.col + 1)
                    \/ (u.col = w.col + 1 /\ v.col = w.col)

\* the wall lists the wall loop can produce for `path`: each candidate is
\* proposed or not at random
placeWalls(rows, cols, path) ==
    LET proposed ==
            { [row |-> r, col |-> c, orientation |-> "horizontal"] :
                  r \in 0..(rows - 2), c \in 0..(cols - 1) }
            \cup
            { [row |-> r, col |-> c, orientation |-> "vertical"] :
                  r \in 0..(rows - 1), c \in 0..(cols - 2) }
        kept == { w \in proposed : ~isWallBlocking(w, path) }
    IN  SUBSET kept

\* the levels one attempt of generateLevel builds before verifying them
attemptLevels(rows, cols, difficulty) ==
    UNION { { [rows |-> rows, cols |-> cols,
               initialValues |-> placeNumbers(path, indices),
               walls |-> walls] :
                 indices \in indicesToMark(path, numberCount(rows * cols, difficulty)),
                 walls \in placeWalls(rows, cols, path) } :
            path \in generateHamiltonianPath(rows, cols) }

\* isBlocked with <= in place of < in the two range tests
isBlockedInclusive(walls, from, to) ==
    LET rowDiff == to.row - from.row
        colDiff == to.col - from.col
        minRow == IF from.row < to.row THEN from.row ELSE to.row
        maxRow == IF from.row < to.row THEN to.row ELSE from.row
        minCol == IF from.col < to.col THEN from.col ELSE to.col
        maxCol == IF from.col < to.col THEN to.col ELSE from.col
    IN  \E wall \in walls :
            IF wall.orientation = "horizontal"
            THEN /\ rowDiff # 0 /\ colDiff = 0
                 /\ wall.col = from.col
                 /\ wall.row >= minRow /\ wall.row <= maxRow
            ELSE /\ colDiff # 0 /\ rowDiff = 0
                 /\ wall.row = from.row
                 /\ wall.col >= minCol /\ wall.col <= maxCol

\* isPuzzleSolvable's helper: is the step from `from` to `to` blocked by a wall
isBlocked(walls, from, to) ==
    LET rowDiff == to.row - from.row
        colDiff == to.col - from.col
        minRow == IF from.row < to.row THEN from.row ELSE to.row
        maxRow == IF from.row < to.row THEN to.row ELSE from.row
        minCol == IF from.col < to.col THEN from.col ELSE to.col
        maxCol == IF from.col < to.col THEN to.col ELSE from.col
    IN  \E wall \in walls :
            IF wall.orientation = "horizontal"
            THEN /\ rowDiff # 0 /\ colDiff = 0
                 /\ wall.col = from.col
                 /\ wall.row >= minRow /\ wall.row < maxRow
            ELSE /\ colDiff # 0 /\ rowDiff = 0
                 /\ wall.row = from.row
                 /\ wall.col >= minCol /\ wall.col < maxCol

\* the for-loop over DIRECTIONS of findPath, from direction d on: the queue
\* and localVisited after the neighbours of `pos` have been pushed
RECURSIVE pushNeighbours(_, _, _, _, _, _, _)
pushNeighbours(d, pos, path, queue, localVisited, visited, level) ==
    IF d > Len(DIRECTIONS)
    THEN [queue |-> queue, localVisited |-> localVisited]
    ELSE LET next == Coord(pos.row + DIRECTIONS[d].row, pos.col + DIRECTIONS[d].col)
             ok == /\ next.row >= 0 /\ next.row < level.rows
                   /\ next.col >= 0 /\ next.col < level.cols
                   /\ next \notin localVisited
                   /\ next \notin visited
                   /\ ~isBlocked(level.walls, pos, next)
         IN  IF ok
             THEN pushNeighbours(d + 1, pos, path,
                                 Append(queue, [pos |-> next, path |-> Append(path, next)]),
                                 localVisited \cup {next}, visited, level)
             ELSE pushNeighbours(d + 1, pos, path, queue, localVisited, visited, level)

\* the while-loop of findPath: the path found, or <<>> for null
RECURSIVE searchQueue(_, _, _, _, _)
searchQueue(queue, localVisited, end, visited, level) ==
    IF queue = <<>>
    THEN <<>>
    ELSE LET pos == Head(queue).pos
             path == Head(queue).path
         IN  IF pos = end
             THEN path
             ELSE LET after == pushNeighbours(1, pos, path, Tail(queue),
                                              localVisited, visited, level)
                  IN  searchQueue(after.queue, after.localVisited, end, visited, level)

\* findPath with the test !visited.has(key) left out
findPathThroughVisited(start, end, visited, level) ==
    searchQueue(<<[pos |-> start, path |-> <<start>>]>>, {start}, end, {}, level)

findPath(start, end, visited, level) ==
    searchQueue(<<[pos |-> start, path |-> <<start>>]>>, {start}, end, visited, level)

\* numberPositions.get(i): the position of the last clue listed with value i
numberPositions(level, i) ==
    LET iv == level.initialValues
        k == CHOOSE j \in 1..Len(iv) :
                 iv[j].value = i /\ \A m \in (j + 1)..Len(iv) : iv[m].value # i
    IN  Coord(iv[k].row, iv[k].col)

maxNumberOf(level) ==
    SetMax({level.initialValues[j].value : j \in 1..Len(level.initialValues)})

\* the loop over the clues 1..maxNumber from clue i on, with the cumulative
\* visited set: the final visited set, or failure when a segment has no route
RECURSIVE visitNumbers(_, _, _)
visitNumbers(i, visited, level) ==
    IF i > maxNumberOf(level)
    THEN [ok |-> TRUE, visited |-> visited]
    ELSE LET currentPos == numberPositions(level, i)
         IN  IF i > 1
             THEN LET path == findPath(numberPositions(level, i - 1), currentPos,
                                       visited, level)
                  IN  IF path = <<>>
                      THEN [ok |-> FALSE, visited |-> visited]
                      ELSE visitNumbers(i + 1,
                               visited \cup {path[j] : j \in 1..(Len(path) - 1)}
                                       \cup {currentPos},
                               level)
             ELSE visitNumbers(i + 1, visited \cup {currentPos}, level)

\* isPuzzleSolvable with the final check as visited.size < totalCells
isPuzzleSolvableStrictSize(level) ==
    LET run == visitNumbers(1, {}, level)
    IN  run.ok /\ Cardinality(run.visited) < level.rows * level.cols

isPuzzleSolvable(level) ==
    LET run == visitNumbers(1, {}, level)
    IN  run.ok /\ Cardinality(run.visited) <= level.rows * level.cols

\* the fallback of generateLevel: no walls, the easy clue count
fallbackLevels(rows, cols) ==
    UNION { { [rows |-> rows, cols |-> cols,
               initialValues |-> placeNumbers(simplePath, indices),
               walls |-> {}] :
                 indices \in indicesToMark(simplePath, (rows * cols) \div 3) } :
            simplePath \in generateHamiltonianPath(rows, cols) }

\* can one attempt fail: path building returns null from some start cell, or
\* the level built is rejected by the verifier
attemptCanFail(rows, cols, difficulty) ==
    \/ \E start \in Cells(rows, cols) : dfs(<<start>>, rows, cols) = {}
    \/ \E level \in attemptLevels(rows, cols, difficulty) : ~isPuzzleSolvable(level)

\* the levels generateLevel can return: a verified attempt, or the fallback
\* once every attempt has failed
generateLevel(rows, cols, difficulty) ==
    { level \in attemptLevels(rows, cols, difficulty) : isPuzzleSolvable(level) }
    \cup
    (IF attemptCanFail(rows, cols, difficulty) THEN fallbackLevels(rows, cols) ELSE {})

(***************************************************************************)
(* The game state machine (src/src/game/logic.ts).  A GameState is a       *)
(* record [level, grid, currentPath, isComplete, lastVisitedNumber]; grid  *)
(* is a function from the cells of the level to Cell records; currentPath  *)
(* is a sequence of coordinates (index 1 here is index 0 of the array).    *)
(***************************************************************************)
\* initializeGame starting the path on the first clue listed, whatever its value
initializeGameOnFirstClue(level) ==
    LET iv == level.initialValues
        stamped == [p \in Cells(level.rows, level.cols) |->
                     IF \E j \in 1..Len(iv) : Coord(iv[j].row, iv[j].col) = p
                     THEN LET k == CHOOSE j \in 1..Len(iv) :
                                       /\ Coord(iv[j].row, iv[j].col) = p
                                       /\ \A m \in (j + 1)..Len(iv) :
                                              Coord(iv[m].row, iv[m].col) # p
                          IN  [value |-> iv[k].value, isFixed |-> TRUE,
                               visitedOrder |-> null]
                     ELSE [value |-> null, isFixed |-> FALSE, visitedOrder |-> null]]
        startCell == Coord(iv[1].row, iv[1].col)
    IN  [level |-> level,
         grid |-> [stamped EXCEPT ![startCell].visitedOrder = 1],
         currentPath |-> <<startCell>>,
         isComplete |-> FALSE,
         lastVisitedNumber |-> 1]

initializeGame(level) ==
    LET iv == level.initialValues
        blank == [p \in Cells(level.rows, level.cols) |->
                     [value |-> null, isFixed |-> FALSE, visitedOrder |-> null]]
        \* forEach over initialValues: a later entry on the same cell wins
        stamped == [p \in Cells(level.rows, level.cols) |->
                     IF \E j \in 1..Len(iv) : Coord(iv[j].row, iv[j].col) = p
                     THEN LET k == CHOOSE j \in 1..Len(iv) :
                                       /\ Coord(iv[j].row, iv[j].col) = p
                                       /\ \A m \in (j + 1)..Len(iv) :
                                              Coord(iv[m].row, iv[m].col) # p
                          IN  [value |-> iv[k].value, isFixed |-> TRUE,
                               visitedOrder |-> null]
                     ELSE blank[p]]
        hasStart == \E j \in 1..Len(iv) : iv[j].value = 1
        startCell == LET k == CHOOSE j \in 1..Len(iv) :
                                 iv[j].value = 1 /\ \A m \in 1..(j - 1) : iv[m].value # 1
                     IN  Coord(iv[k].row, iv[k].col)
    IN  IF hasStart
        THEN [level |-> level,
              grid |-> [stamped EXCEPT ![startCell].visitedOrder = 1],
              currentPath |-> <<startCell>>,
              isComplete |-> FALSE,
              lastVisitedNumber |-> 1]
        ELSE [level |-> level,
              grid |-> stamped,
              currentPath |-> <<>>,
              isComplete |-> FALSE,
              lastVisitedNumber |-> 0]

\* hasWall with the reverse direction of each wall forgotten
hasWallOneWay(walls, from, to) ==
    \E wall \in walls :
        IF wall.orientation = "horizontal"
        THEN /\ from.col = wall.col /\ to.col = wall.col
             /\ from.row = wall.row /\ to.row = wall.row + 1
        ELSE /\ from.row = wall.row /\ to.row = wall.row
             /\ from.col = wall.col /\ to.col = wall.col + 1

hasWall(walls, from, to) ==
    \E wall \in walls :
        IF wall.orientation = "horizontal"
        THEN /\ from.col = wall.col /\ to.col = wall.col
             /\ \/ (from.row = wall.row /\ to.row = wall.row + 1)
                \/ (from.row = wall.row + 1 /\ to.row = wall.row)
        ELSE /\ from.row = wall.row /\ to.row = wall.row
             /\ \/ (from.col = wall.col /\ to.col = wall.col + 1)
                \/ (from.col = wall.col + 1 /\ to.col = wall.col)

\* isValidMove with check 5 (the number sequence) left out
isValidMoveNoSequence(state, target) ==
    IF Len(state.currentPath) = 0 THEN FALSE
    ELSE
    LET current == state.currentPath[Len(state.currentPath)]
    IN  IF \/ target.row < 0 \/ target.row >= state.level.rows
           \/ target.col < 0 \/ target.col >= state.level.cols
        THEN FALSE
        ELSE
        LET dRow == IF target.row < current.row THEN current.row - target.row
                    ELSE target.row - current.row
            dCol == IF target.col < current.col THEN current.col - target.col
                    ELSE target.col - current.col
            inPathIndex == findIndex(state.currentPath, target)
        IN  IF inPathIndex = -1 /\ dRow + dCol # 1 THEN FALSE
            ELSE IF inPathIndex # -1 THEN TRUE
            ELSE IF state.grid[target].visitedOrder # null THEN FALSE
            ELSE IF \E wall \in state.level.walls :
                       IF wall.orientation = "horizontal"
                       THEN /\ current.col = wall.col /\ target.col = wall.col
                            /\ \/ (current.row = wall.row /\ target.row = wall.row + 1)
                               \/ (current.row = wall.row + 1 /\ target.row = wall.row)
                       ELSE /\ current.row = wall.row /\ target.row = wall.row
                            /\ \/ (current.col = wall.col /\ target.col = wall.col + 1)
                               \/ (current.col = wall.col + 1 /\ target.col = wall.col)
                 THEN FALSE
            ELSE TRUE

isValidMove(state, target) ==
    LET currentPath == state.currentPath
        level == state.level
        grid == state.grid
    IN  IF Len(currentPath) = 0 THEN FALSE
        ELSE
        LET current == currentPath[Len(currentPath)]
        IN  \* 1. bounds
            IF \/ target.row < 0 \/ target.row >= level.rows
               \/ target.col < 0 \/ target.col >= level.cols
            THEN FALSE
            ELSE
            LET dRow == Abs(target.row - current.row)
                dCol == Abs(target.col - current.col)
                inPathIndex == findIndex(currentPath, target)
            IN  \* 2. not in the path: must be adjacent; in the path: allowed
                IF inPathIndex = -1 /\ dRow + dCol # 1 THEN FALSE
                ELSE IF inPathIndex # -1 THEN TRUE
                \* 3. already visited
                ELSE IF grid[target].visitedOrder # null /\ inPathIndex = -1 THEN FALSE
                \* 4. walls
                ELSE IF inPathIndex = -1 /\ hasWall(level.walls, current, target) THEN FALSE
                \* 5. number sequence
                ELSE IF /\ inPathIndex = -1
                        /\ grid[target].isFixed /\ grid[target].value # null
                        /\ grid[target].value # state.lastVisitedNumber + 1
                     THEN FALSE
                ELSE TRUE

\* the rewind branch with the re-calculation of lastVisitedNumber left out
rewindToKeepingNumber(state, pathIndex) ==
    LET currentPath == state.currentPath
        removed == { currentPath[i] : i \in (pathIndex + 2)..Len(currentPath) }
    IN  [state EXCEPT !.grid = [p \in DOMAIN state.grid |->
                                  IF p \in removed
                                  THEN [state.grid[p] EXCEPT !.visitedOrder = null]
                                  ELSE state.grid[p]],
                      !.currentPath = SubSeq(currentPath, 1, pathIndex + 1),
                      !.isComplete = FALSE]

\* the rewind branch of makeMove, to 0-based index pathIndex
rewindTo(state, pathIndex) ==
    LET currentPath == state.currentPath
        removed == { currentPath[i] : i \in (pathIndex + 2)..Len(currentPath) }
        newGrid == [p \in DOMAIN state.grid |->
                      IF p \in removed
                      THEN [state.grid[p] EXCEPT !.visitedOrder = null]
                      ELSE state.grid[p]]
        newPath == SubSeq(currentPath, 1, pathIndex + 1)
        clues == { newGrid[newPath[i]].value : i \in
                      { j \in 1..Len(newPath) : /\ newGrid[newPath[j]].value # null
                                                /\ newGrid[newPath[j]].isFixed } }
        newLastVisited == SetMax(clues \cup {0})
    IN  [state EXCEPT !.grid = newGrid,
                      !.currentPath = newPath,
                      !.lastVisitedNumber = newLastVisited,
                      !.isComplete = FALSE]

\* extendTo with lastVisitedNumber carried over unchanged
extendToKeepingNumber(state, target) ==
    LET currentPath == state.currentPath
        newPath == Append(currentPath, target)
        totalCells == state.level.rows * state.level.cols
        isPathComplete == Len(newPath) = totalCells
        hasVisitedAllNumbers == state.lastVisitedNumber = maxNumberOf(state.level)
    IN  [state EXCEPT !.grid[target].visitedOrder = Len(currentPath) + 1,
                      !.currentPath = newPath,
                      !.isComplete = isPathComplete /\ hasVisitedAllNumbers]

\* the forward branch of makeMove, taken once isValidMove has accepted target
extendTo(state, target) ==
    LET currentPath == state.currentPath
        targetCell == state.grid[target]
        newLastVisited == IF targetCell.isFixed /\ targetCell.value # null
                          THEN targetCell.value
                          ELSE state.lastVisitedNumber
        newPath == Append(currentPath, target)
        totalCells == state.level.rows * state.level.cols
        isPathComplete == Len(newPath) = totalCells
        maxNumber == maxNumberOf(state.level)
        hasVisitedAllNumbers == newLastVisited = maxNumber
    IN  [state EXCEPT !.grid[target].visitedOrder = Len(currentPath) + 1,
                      !.currentPath = newPath,
                      !.lastVisitedNumber = newLastVisited,
                      !.isComplete = isPathComplete /\ hasVisitedAllNumbers]

\* makeMove with the call of isValidMove replaced by a bounds check
makeMoveUnvalidated(state, target) ==
    LET pathIndex == findIndex(state.currentPath, target)
    IN  IF pathIndex # -1 /\ pathIndex < Len(state.currentPath) - 1
        THEN rewindTo(state, pathIndex)
        ELSE IF target \notin DOMAIN state.grid
        THEN state
        ELSE extendTo(state, target)

makeMove(state, target) ==
    LET pathIndex == findIndex(state.currentPath, target)
    IN  IF pathIndex # -1 /\ pathIndex < Len(state.currentPath) - 1
        THEN rewindTo(state, pathIndex)
        ELSE IF ~isValidMove(state, target)
        THEN state
        ELSE extendTo(state, target)

\* handleMove with the isComplete gate left out
handleMoveUngated(state, target) == makeMove(state, target)

\* App.handleMove: the state setGameState receives (none when gated)
handleMove(state, target) ==
    IF state.isComplete THEN state ELSE makeMove(state, target)

\* App.handleReset
handleReset(state) == initializeGame(state.level)

(***************************************************************************)
(* The pointer input layer: the Grid component of                          *)
(* src/src/components/Cell.tsx.  A render of App and Grid builds closures  *)
(* over the gameState and isDragging of that render: handleMove reads the  *)
(* gameState of its render, processQueue the isDragging and onMove of its  *)
(* render.  A pending animation frame holds the processQueue it was        *)
(* requested with, here the record [isDragging, gameState] of the values   *)
(* that closure reads.  State updates made in a handler are rendered when  *)
(* the handler returns, before the next event.                             *)
(***************************************************************************)
\* the while-loop of getLineCells from (x0, y0) with error term err
RECURSIVE lineFrom(_, _, _, _, _, _)
lineFrom(x0, y0, err, start, end, cells) ==
    LET dx == Abs(end.col - start.col)
        dy == Abs(end.row - start.row)
        sx == IF start.col < end.col THEN 1 ELSE -1
        sy == IF start.row < end.row THEN 1 ELSE -1
        pushed == IF ~(x0 = start.col /\ y0 = start.row)
                  THEN Append(cells, Coord(y0, x0))
                  ELSE cells
    IN  IF x0 = end.col /\ y0 = end.row
        THEN pushed
        ELSE LET e2 == 2 * err
                 err1 == IF e2 > -dy THEN err - dy ELSE err
                 x1 == IF e2 > -dy THEN x0 + sx ELSE x0
                 err2 == IF e2 < dx THEN err1 + dx ELSE err1
                 y1 == IF e2 < dx THEN y0 + sy ELSE y0
             IN  lineFrom(x1, y1, err2, start, end, pushed)

\* the cells on the line from start to end, start left out
getLineCells(start, end) ==
    lineFrom(start.col, start.row,
             Abs(end.col - start.col) - Abs(end.row - start.row),
             start, end, <<>>)

\* queueMove: the move queue and lastProcessedCellRef it leaves
queueMove(moveQueue, last, currentPath, target) ==
    LET unchanged == [moveQueue |-> moveQueue, lastProcessedCell |-> last]
        pushTarget == [moveQueue |-> Append(moveQueue, target),
                       lastProcessedCell |-> <<target>>]
    IN  IF last = <<>> THEN pushTarget
        ELSE IF last[1] = target THEN unchanged
        ELSE LET targetInPath == findIndex(currentPath, target)
             IN  IF targetInPath >= 0
                 THEN IF targetInPath = Len(currentPath) - 2
                      THEN pushTarget
                      ELSE unchanged
                 ELSE [moveQueue |-> moveQueue \o getLineCells(last[1], target),
                       lastProcessedCell |-> <<target>>]

\* startProcessing with the test as moveQueueRef.current.length > 1
startProcessingFromTwo(frame, moveQueue, rendered) ==
    IF frame = <<>> /\ Len(moveQueue) > 1 THEN <<rendered>> ELSE frame

\* startProcessing, called from a handler of the current render: the frame
\* pending afterwards
startProcessing(frame, moveQueue, rendered) ==
    IF frame = <<>> /\ Len(moveQueue) > 0 THEN <<rendered>> ELSE frame

\* the for-loop of processQueue over movesToProcess: the value the last
\* setGameState call received (<<>> if none was made); onMove is the
\* handleMove of the render the closure belongs to and reads that render's
\* gameState at every call
RECURSIVE onMoveEach(_, _, _)
onMoveEach(movesToProcess, closureState, pending) ==
    IF movesToProcess = <<>>
    THEN pending
    ELSE onMoveEach(Tail(movesToProcess), closureState,
                    IF closureState.isComplete
                    THEN pending
                    ELSE <<handleMove(closureState, Head(movesToProcess))>>)

\* the targets applied one at a time, each to the state the one before left
RECURSIVE applyInOrder(_, _)
applyInOrder(state, targets) ==
    IF targets = <<>>
    THEN state
    ELSE applyInOrder(handleMove(state, Head(targets)), Tail(targets))

(***************************************************************************)
(* initializeGame and makeMove over a store of objects.  Every Cell is an  *)
(* object in the store, at an address; the grid of a GameState object maps *)
(* each coordinate to the address of its Cell, so that two grids can share *)
(* a Cell and a write through one shows through the other.  The arrays     *)
(* (rows, paths) are built new by map, slice and spread and never written  *)
(* afterwards; the Level is passed on by reference and never written.      *)
(***************************************************************************)
\* the position of a cell in row-major order, from 1
cellIndex(p, cols) == p.row * cols + p.col + 1

\* the GameState value an object of the store holds
deref(store, state) ==
    [level |-> state.level,
     grid |-> [p \in DOMAIN state.grid |-> store[state.grid[p]]],
     currentPath |-> state.currentPath,
     isComplete |-> state.isComplete,
     lastVisitedNumber |-> state.lastVisitedNumber]

\* initializeGame: a new Cell object for every cell of the level
initializeGameOnHeap(store, level) ==
    LET made == initializeGame(level)
        order == [i \in 1..(level.rows * level.cols) |->
                     CHOOSE p \in DOMAIN made.grid : cellIndex(p, level.cols) = i]
    IN  [store |-> store \o [i \in 1..Len(order) |-> made.grid[order[i]]],
         state |-> [made EXCEPT !.grid =
                        [p \in DOMAIN made.grid |-> Len(store) + cellIndex(p, level.cols)]]]

\* the grid passed on as it is: the new state shares every Cell object
shareGrid(store, state) == [store |-> store, grid |-> state.grid]

\* grid.map(row => row.map(cell => ({ ...cell }))): a new Cell object for
\* every cell, holding a copy of the fields
copyGrid(store, state) ==
    LET cols == state.level.cols
        order == [i \in 1..(state.level.rows * cols) |->
                     CHOOSE p \in DOMAIN state.grid : cellIndex(p, cols) = i]
    IN  [store |-> store \o [i \in 1..Len(order) |-> store[state.grid[order[i]]]],
         grid |-> [p \in DOMAIN state.grid |-> Len(store) + cellIndex(p, cols)]]

\* makeMove: the store after the call and the object returned
makeMoveOnHeap(store, state, target) ==
    LET currentPath == state.currentPath
        pathIndex == findIndex(currentPath, target)
    IN  IF pathIndex # -1 /\ pathIndex < Len(currentPath) - 1
        THEN \* rewind
             LET newPath == SubSeq(currentPath, 1, pathIndex + 1)
                 copied == copyGrid(store, state)
                 newGrid == copied.grid
                 cleared == { newGrid[currentPath[i]] :
                                i \in (pathIndex + 2)..Len(currentPath) }
                 written == [a \in DOMAIN copied.store |->
                                IF a \in cleared
                                THEN [copied.store[a] EXCEPT !.visitedOrder = null]
                                ELSE copied.store[a]]
                 clues == { written[newGrid[newPath[i]]].value : i \in
                              { j \in 1..Len(newPath) :
                                  /\ written[newGrid[newPath[j]]].value # null
                                  /\ written[newGrid[newPath[j]]].isFixed } }
             IN  [store |-> written,
                  state |-> [state EXCEPT !.grid = newGrid,
                                          !.currentPath = newPath,
                                          !.lastVisitedNumber = SetMax(clues \cup {0}),
                                          !.isComplete = FALSE]]
        ELSE IF ~isValidMove(deref(store, state), target)
        THEN [store |-> store, state |-> state]
        ELSE \* forward
             LET copied == copyGrid(store, state)
                 newGrid == copied.grid
                 targetCell == copied.store[newGrid[target]]
                 written == [copied.store EXCEPT
                                ![newGrid[target]].visitedOrder = Len(currentPath) + 1]
                 newLastVisited == IF targetCell.isFixed /\ targetCell.value # null
                                   THEN targetCell.value
                                   ELSE state.lastVisitedNumber
                 newPath == Append(currentPath, target)
             IN  [store |-> written,
                  state |-> [state EXCEPT
                                !.grid = newGrid,
                                !.currentPath = newPath,
                                !.lastVisitedNumber = newLastVisited,
                                !.isComplete =
                                    /\ Len(newPath) = state.level.rows * state.level.cols
                                    /\ newLastVisited = maxNumberOf(state.level)]]

(***************************************************************************)
(* The state machine: a session starts on a generated level; targets are   *)
(* the cells of the grid and one coordinate beyond each of its four sides. *)
(***************************************************************************)
\* a sample of the 3x3 levels (the smallest grid on which generateLevel places
\* a third clue): clue 1 in a corner, clue 2 in the centre, clue 3 in the
\* opposite corner, at most one wall
SampleLevels ==
    { level \in generateLevel(3, 3, "easy") :
          /\ [i \in 1..Len(level.initialValues) |->
                 Coord(level.initialValues[i].row, level.initialValues[i].col)]
             = <<Coord(0, 0), Coord(1, 1), Coord(2, 2)>>
          /\ Cardinality(level.walls) <= 1 }

Levels ==
    UNION { generateLevel(shape[1], shape[2], difficulty) :
                shape \in GridShapes, difficulty \in Difficulties }
    \cup SampleLevels

Targets(level) ==
    Cells(level.rows, level.cols)
    \cup { Coord(-1, 0), Coord(level.rows, 0), Coord(0, -1), Coord(0, level.cols) }

\* the branch of makeMove a call with `target` runs
branchOf(state, target) ==
    LET pathIndex == findIndex(state.currentPath, target)
    IN  IF pathIndex # -1 /\ pathIndex < Len(state.currentPath) - 1 THEN "rewind"
        ELSE IF ~isValidMove(state, target) THEN "rejected"
        ELSE "extended"

\* does a call with `target` append the cell the path already ends on
appendsHead(state, target) ==
    /\ Len(state.currentPath) > 0
    /\ target = state.currentPath[Len(state.currentPath)]
    /\ branchOf(state, target) = "extended"

\* the variables of the Grid component, of the object store and of the
\* generator run while another specification runs
InputIdle ==
    /\ isDragging = FALSE
    /\ animationFrameRef = <<>>
    /\ lastProcessedCellRef = <<>>
    /\ currentMouseCellRef = <<>>
    /\ moveQueueRef = <<>>
    /\ sequential = <<>>
    /\ pushedTargets = <<>>
    /\ deliveredTargets = <<>>

GameIdle == gameState = <<>> /\ lastCall = <<>> /\ headMoves = 0

HeapIdle == heapCells = <<>> /\ stateRef = <<>> /\ snapshot = <<>>

GenIdle == generation = <<>> /\ search = <<>>

Init ==
    /\ \E level \in Levels :
           /\ gameState = initializeGame(level)
           /\ lastCall = [op |-> "initializeGame", branch |-> "initialized"]
           /\ headMoves = 0
    /\ InputIdle /\ HeapIdle /\ GenIdle

\* a direct call of the exported makeMove on the current state
MakeMove ==
    \E target \in Targets(gameState.level) :
        LET again == appendsHead(gameState, target)
        IN  /\ again => headMoves < MaxHeadMoves
            /\ gameState' = makeMove(gameState, target)
            /\ lastCall' = [op |-> "makeMove", branch |-> branchOf(gameState, target)]
            /\ headMoves' = IF again THEN headMoves + 1 ELSE headMoves
            /\ UNCHANGED <<inputVars, heapVars, genVars>>

\* a move delivered to App.handleMove
HandleMove ==
    \E target \in Targets(gameState.level) :
        LET again == ~gameState.isComplete /\ appendsHead(gameState, target)
        IN  /\ again => headMoves < MaxHeadMoves
            /\ gameState' = handleMove(gameState, target)
            /\ lastCall' = [op |-> "handleMove",
                            branch |-> IF gameState.isComplete THEN "gated"
                                       ELSE branchOf(gameState, target)]
            /\ headMoves' = IF again THEN headMoves + 1 ELSE headMoves
            /\ UNCHANGED <<inputVars, heapVars, genVars>>

HandleReset ==
    /\ gameState' = handleReset(gameState)
    /\ lastCall' = [op |-> "handleReset", branch |-> "initialized"]
    /\ headMoves' = 0
    /\ UNCHANGED <<inputVars, heapVars, genVars>>

Next == MakeMove \/ HandleMove \/ HandleReset

Spec == Init /\ [][Next]_vars

(***************************************************************************)
(* SpecInit: the same session on any small level, made by generateLevel or *)
(* not: a 2x2 grid without walls, one or two clues on distinct cells with  *)
(* distinct values up to MaxClueValue, with or without a clue 1.           *)
(***************************************************************************)
MaxClueValue == 3

AnyLevels ==
    LET clues == { [row |-> p.row, col |-> p.col, value |-> v] :
                     p \in Cells(2, 2), v \in 1..MaxClueValue }
    IN  { [rows |-> 2, cols |-> 2, initialValues |-> <<a>>, walls |-> {}] : a \in clues }
        \cup
        { [rows |-> 2, cols |-> 2, initialValues |-> <<pair[1], pair[2]>>, walls |-> {}] :
            pair \in { q \in clues \X clues :
                         /\ Coord(q[1].row, q[1].col) # Coord(q[2].row, q[2].col)
                         /\ q[1].value # q[2].value } }

InitAny ==
    /\ \E level \in AnyLevels :
           /\ gameState = initializeGame(level)
           /\ lastCall = [op |-> "initializeGame", branch |-> "initialized"]
           /\ headMoves = 0
    /\ InputIdle /\ HeapIdle /\ GenIdle

SpecInit == InitAny /\ [][Next]_vars

(***************************************************************************)
(* SpecInput: a session played through the Grid component.  A pointer      *)
(* event lands on a cell of the grid or outside it (getCellFromPoint       *)
(* returns null); an animation frame runs the processQueue it was          *)
(* requested with.                                                         *)
(***************************************************************************)
\* most targets waiting in the move queue
MaxQueue == 2

\* the levels of the input sessions: every level of these grid sizes
InputShapes == {<<1, 2>>, <<1, 3>>}

InputLevels ==
    UNION { generateLevel(shape[1], shape[2], "easy") : shape \in InputShapes }

\* the useEffect on currentPath: lastProcessedCellRef follows the path head
syncLastProcessedCell(currentPath) ==
    IF Len(currentPath) > 0 THEN <<currentPath[Len(currentPath)]>> ELSE <<>>

\* what the closures of the current render read
rendered == [isDragging |-> isDragging, gameState |-> gameState]

InitInput ==
    /\ \E level \in InputLevels : gameState = initializeGame(level)
    /\ lastCall = [op |-> "initializeGame", branch |-> "initialized"]
    /\ headMoves = 0
    /\ isDragging = FALSE
    /\ animationFrameRef = <<>>
    /\ lastProcessedCellRef = syncLastProcessedCell(gameState.currentPath)
    /\ currentMouseCellRef = <<>>
    /\ moveQueueRef = <<>>
    /\ sequential = gameState
    /\ pushedTargets = <<>>
    /\ deliveredTargets = <<>>
    /\ HeapIdle /\ GenIdle

\* handlePointerDown on a cell of the grid
PointerDown ==
    \E cell \in Cells(gameState.level.rows, gameState.level.cols) :
        LET queued == queueMove(moveQueueRef, lastProcessedCellRef,
                                gameState.currentPath, cell)
        IN  /\ Len(queued.moveQueue) <= MaxQueue
            /\ isDragging' = TRUE
            /\ currentMouseCellRef' = <<cell>>
            /\ moveQueueRef' = queued.moveQueue
            /\ lastProcessedCellRef' = queued.lastProcessedCell
            /\ animationFrameRef' =
                   startProcessing(animationFrameRef, queued.moveQueue, rendered)
            /\ lastCall' = [op |-> "handlePointerDown", branch |-> "cell"]
            /\ UNCHANGED <<gameState, headMoves, sequential, heapVars, genVars,
                   pushedTargets, deliveredTargets>>

\* handlePointerDown outside the grid: getCellFromPoint returns null
PointerDownOutside ==
    /\ isDragging' = TRUE
    /\ lastCall' = [op |-> "handlePointerDown", branch |-> "outside"]
    /\ UNCHANGED <<gameState, headMoves, animationFrameRef, lastProcessedCellRef,
                   currentMouseCellRef, moveQueueRef, sequential, heapVars, genVars,
                   pushedTargets, deliveredTargets>>

\* handlePointerMove on a cell of the grid while dragging (it returns at once
\* when not dragging or outside the grid)
PointerMove ==
    /\ isDragging
    /\ \E cell \in Cells(gameState.level.rows, gameState.level.cols) :
          LET queued == queueMove(moveQueueRef, lastProcessedCellRef,
                                  gameState.currentPath, cell)
          IN  /\ Len(queued.moveQueue) <= MaxQueue
              /\ currentMouseCellRef' = <<cell>>
              /\ moveQueueRef' = queued.moveQueue
              /\ lastProcessedCellRef' = queued.lastProcessedCell
              /\ animationFrameRef' =
                     startProcessing(animationFrameRef, queued.moveQueue, rendered)
              /\ lastCall' = [op |-> "handlePointerMove", branch |-> "cell"]
              /\ UNCHANGED <<gameState, headMoves, isDragging, sequential,
                             heapVars, genVars,
                   pushedTargets, deliveredTargets>>

\* handlePointerUp, also bound to pointer-leave
PointerUp ==
    /\ isDragging' = FALSE
    /\ currentMouseCellRef' = <<>>
    /\ animationFrameRef' =
           IF Len(moveQueueRef) > 0 /\ animationFrameRef = <<>>
           THEN <<rendered>>
           ELSE animationFrameRef
    /\ lastCall' = [op |-> "handlePointerUp", branch |-> "up"]
    /\ UNCHANGED <<gameState, headMoves, lastProcessedCellRef, moveQueueRef,
                   sequential, heapVars, genVars,
                   pushedTargets, deliveredTargets>>

\* the pending animation frame fires and runs its processQueue
AnimationFrame ==
    /\ animationFrameRef # <<>>
    /\ LET processQueue == animationFrameRef[1]
           movesToProcess == moveQueueRef
           pending == onMoveEach(movesToProcess, processQueue.gameState, <<>>)
           \* a rejected call returns the object it was given: setting the
           \* state to the object already rendered renders nothing
           sameObject ==
               /\ pending # <<>>
               /\ branchOf(processQueue.gameState,
                           movesToProcess[Len(movesToProcess)]) = "rejected"
               /\ processQueue.gameState = gameState
           rerender == pending # <<>> /\ ~sameObject
           newState == IF rerender THEN pending[1] ELSE gameState
           inOrder == applyInOrder(sequential, movesToProcess)
           longest == gameState.level.rows * gameState.level.cols + MaxHeadMoves
       IN  IF Len(movesToProcess) = 0
           THEN /\ animationFrameRef' = <<>>
                /\ lastCall' = [op |-> "processQueue", branch |-> "empty"]
                /\ UNCHANGED <<gameState, headMoves, isDragging, lastProcessedCellRef,
                               currentMouseCellRef, moveQueueRef, sequential,
                               heapVars, genVars,
                   pushedTargets, deliveredTargets>>
           ELSE /\ Len(newState.currentPath) <= longest
                /\ Len(inOrder.currentPath) <= longest
                /\ moveQueueRef' = <<>>
                /\ gameState' = newState
                /\ lastProcessedCellRef' =
                       IF rerender
                       THEN syncLastProcessedCell(pending[1].currentPath)
                       ELSE lastProcessedCellRef
                /\ animationFrameRef' =
                       IF processQueue.isDragging /\ currentMouseCellRef # <<>>
                       THEN animationFrameRef
                       ELSE <<>>
                /\ sequential' = inOrder
                /\ lastCall' = [op |-> "processQueue",
                                branch |-> IF Len(movesToProcess) > 1
                                           THEN "batch" ELSE "single"]
                /\ UNCHANGED <<headMoves, isDragging, currentMouseCellRef,
                               heapVars, genVars,
                   pushedTargets, deliveredTargets>>

NextInput ==
    PointerDown \/ PointerDownOutside \/ PointerMove \/ PointerUp \/ AnimationFrame

SpecInput == InitInput /\ [][NextInput]_vars

(***************************************************************************)
(* SpecDelivery: the Grid component under pointer events and animation     *)
(* frames, as in SpecInput, with the targets queueMove pushes and the      *)
(* targets processQueue passes to onMove on record.  The component stays   *)
(* mounted, so a requested frame is never cancelled and its callback runs. *)
(***************************************************************************)
\* most targets pushed onto the move queue in one session
MaxPushed == 3

\* processQueue, run by the pending frame on a queue that is not empty: the
\* targets it passes to onMove, the state rendered afterwards, and the refs
processQueue(frame, moveQueue, state, last, mouse) ==
    LET closure == frame[1]
        movesToProcess == moveQueue
        pending == onMoveEach(movesToProcess, closure.gameState, <<>>)
        sameObject ==
            /\ pending # <<>>
            /\ branchOf(closure.gameState, movesToProcess[Len(movesToProcess)]) = "rejected"
            /\ closure.gameState = state
        rerender == pending # <<>> /\ ~sameObject
    IN  [passed |-> movesToProcess,
         moveQueue |-> <<>>,
         gameState |-> IF rerender THEN pending[1] ELSE state,
         lastProcessedCell |-> IF rerender
                               THEN syncLastProcessedCell(pending[1].currentPath)
                               ELSE last,
         frame |-> IF closure.isDragging /\ mouse # <<>> THEN frame ELSE <<>>]

\* the targets a call of queueMove added to the queue
added(before, after) == SubSeq(after, Len(before) + 1, Len(after))

\* the levels of SpecInput and a sample of the 2x2 levels, where a drag can
\* turn: those without walls whose clue 1 is in the top left corner
DeliveryLevels ==
    InputLevels
    \cup { level \in generateLevel(2, 2, "easy") :
              /\ level.walls = {}
              /\ level.initialValues[1].row = 0
              /\ level.initialValues[1].col = 0 }

InitDelivery ==
    /\ \E level \in DeliveryLevels : gameState = initializeGame(level)
    /\ lastCall = [op |-> "initializeGame", branch |-> "initialized"]
    /\ headMoves = 0
    /\ isDragging = FALSE
    /\ animationFrameRef = <<>>
    /\ lastProcessedCellRef = syncLastProcessedCell(gameState.currentPath)
    /\ currentMouseCellRef = <<>>
    /\ moveQueueRef = <<>>
    /\ sequential = <<>>
    /\ pushedTargets = <<>>
    /\ deliveredTargets = <<>>
    /\ HeapIdle /\ GenIdle

\* handlePointerDown on a cell of the grid
DeliveryPointerDown ==
    \E cell \in Cells(gameState.level.rows, gameState.level.cols) :
        LET queued == queueMove(moveQueueRef, lastProcessedCellRef,
                                gameState.currentPath, cell)
            more == added(moveQueueRef, queued.moveQueue)
        IN  /\ Len(pushedTargets) + Len(more) <= MaxPushed
            /\ isDragging' = TRUE
            /\ currentMouseCellRef' = <<cell>>
            /\ moveQueueRef' = queued.moveQueue
            /\ lastProcessedCellRef' = queued.lastProcessedCell
            /\ animationFrameRef' =
                   startProcessing(animationFrameRef, queued.moveQueue, rendered)
            /\ pushedTargets' = pushedTargets \o more
            /\ UNCHANGED <<gameVars, sequential, deliveredTargets, heapVars, genVars>>

\* handlePointerDown outside the grid: getCellFromPoint returns null
DeliveryPointerDownOutside ==
    /\ isDragging' = TRUE
    /\ UNCHANGED <<gameVars, animationFrameRef, lastProcessedCellRef,
                   currentMouseCellRef, moveQueueRef, sequential,
                   pushedTargets, deliveredTargets, heapVars, genVars>>

\* handlePointerMove on a cell of the grid while dragging
DeliveryPointerMove ==
    /\ isDragging
    /\ \E cell \in Cells(gameState.level.rows, gameState.level.cols) :
          LET queued == queueMove(moveQueueRef, lastProcessedCellRef,
                                  gameState.currentPath, cell)
              more == added(moveQueueRef, queued.moveQueue)
          IN  /\ Len(pushedTargets) + Len(more) <= MaxPushed
              /\ currentMouseCellRef' = <<cell>>
              /\ moveQueueRef' = queued.moveQueue
              /\ lastProcessedCellRef' = queued.lastProcessedCell
              /\ animationFrameRef' =
                     startProcessing(animationFrameRef, queued.moveQueue, rendered)
              /\ pushedTargets' = pushedTargets \o more
              /\ UNCHANGED <<gameVars, isDragging, sequential, deliveredTargets,
                             heapVars, genVars>>

\* handlePointerUp, also bound to pointer-leave
DeliveryPointerUp ==
    /\ isDragging' = FALSE
    /\ currentMouseCellRef' = <<>>
    /\ animationFrameRef' =
           IF Len(moveQueueRef) > 0 /\ animationFrameRef = <<>>
           THEN <<rendered>>
           ELSE animationFrameRef
    /\ UNCHANGED <<gameVars, lastProcessedCellRef, moveQueueRef, sequential,
                   pushedTargets, deliveredTargets, heapVars, genVars>>

\* the pending animation frame fires and runs its processQueue
DeliveryFrame ==
    /\ animationFrameRef # <<>>
    /\ IF Len(moveQueueRef) = 0
       THEN /\ animationFrameRef' = <<>>
            /\ UNCHANGED <<gameVars, isDragging, lastProcessedCellRef,
                           currentMouseCellRef, moveQueueRef, sequential,
                           pushedTargets, deliveredTargets, heapVars, genVars>>
       ELSE LET run == processQueue(animationFrameRef, moveQueueRef, gameState,
                                    lastProcessedCellRef, currentMouseCellRef)
            IN  /\ moveQueueRef' = run.moveQueue
                /\ deliveredTargets' = deliveredTargets \o run.passed
                /\ gameState' = run.gameState
                /\ lastProcessedCellRef' = run.lastProcessedCell
                /\ animationFrameRef' = run.frame
                /\ UNCHANGED <<lastCall, headMoves, isDragging, currentMouseCellRef,
                               sequential, pushedTargets, heapVars, genVars>>

NextDelivery ==
    \/ DeliveryPointerDown \/ DeliveryPointerDownOutside \/ DeliveryPointerMove
    \/ DeliveryPointerUp \/ DeliveryFrame

\* the browser runs the callback of a requested frame
SpecDelivery == InitDelivery /\ [][NextDelivery]_vars /\ WF_vars(DeliveryFrame)

(***************************************************************************)
(* SpecHeap: a caller plays makeMove on the GameState object it holds and  *)
(* may keep the object of any moment aside.  gameState follows the same    *)
(* calls in the value model of makeMove.                                   *)
(***************************************************************************)
\* most calls of makeMove per game that build a new grid
MaxHeapMoves == 3

HeapLevels == generateLevel(2, 2, "easy")

InitHeap ==
    /\ \E level \in HeapLevels :
           LET made == initializeGameOnHeap(<<>>, level)
           IN  /\ heapCells = made.store
               /\ stateRef = <<made.state>>
               /\ gameState = initializeGame(level)
    /\ snapshot = <<>>
    /\ lastCall = [op |-> "initializeGame", branch |-> "initialized"]
    /\ headMoves = 0
    /\ InputIdle /\ GenIdle

\* makeMove on the object held, the caller holding the object returned
HeapMakeMove ==
    \E target \in Targets(gameState.level) :
        LET after == makeMoveOnHeap(heapCells, stateRef[1], target)
            totalCells == gameState.level.rows * gameState.level.cols
        IN  /\ Len(after.store) <= (MaxHeapMoves + 1) * totalCells
            /\ heapCells' = after.store
            /\ stateRef' = <<after.state>>
            /\ gameState' = makeMove(gameState, target)
            /\ lastCall' = [op |-> "makeMove", branch |-> branchOf(gameState, target)]
            /\ UNCHANGED <<headMoves, snapshot, inputVars, genVars>>

\* the caller keeps a reference to the object it holds
Retain ==
    /\ snapshot' = <<[object |-> stateRef[1],
                      value |-> deref(heapCells, stateRef[1])]>>
    /\ lastCall' = [op |-> "retain", branch |-> "retained"]
    /\ UNCHANGED <<gameState, headMoves, heapCells, stateRef, inputVars, genVars>>

NextHeap == HeapMakeMove \/ Retain

SpecHeap == InitHeap /\ [][NextHeap]_vars

(***************************************************************************)
(* SpecGen: one run of generateLevel(rows, cols, difficulty), one step per *)
(* iteration of the attempt loop and one for the fallback.  generation     *)
(* holds the arguments, the attempts counter, how the run stands, and the  *)
(* path and the level built last (<<>> for none).                          *)
(***************************************************************************)
maxAttempts == 50

\* most walls the wall loop of one attempt places
MaxWalls == 1

\* the calls explored, as <<rows, cols, difficulty>>
GenRequests ==
    ({<<1, 1>>, <<1, 2>>, <<1, 3>>, <<2, 2>>, <<2, 3>>, <<1, 9>>} \X Difficulties)
    \cup {<<<<3, 3>>, "easy">>}

\* the test of line 253 passing whatever the verifier says
levelAcceptedUnverified(level) == TRUE

\* the test of line 253 on the level an attempt has built
levelAccepted(level) == isPuzzleSolvable(level)

\* the levels an attempt can build, each with the path it was built from
attemptBuilds(rows, cols, difficulty) ==
    UNION { { [path |-> path,
               level |-> [rows |-> rows, cols |-> cols,
                          initialValues |-> placeNumbers(path, indices),
                          walls |-> walls]] :
                 indices \in indicesToMark(path, numberCount(rows * cols, difficulty)),
                 walls \in { w \in placeWalls(rows, cols, path) :
                                Cardinality(w) <= MaxWalls } } :
            path \in generateHamiltonianPath(rows, cols) }

\* per call, the builds of an attempt that pass the test of line 253 and
\* those that fail it, tabulated (f @@ <<>> is f as an explicit function)
VerifiedBuilds ==
    [request \in GenRequests |->
        { built \in attemptBuilds(request[1][1], request[1][2], request[2]) :
              levelAccepted(built.level) }] @@ <<>>

RejectedBuilds ==
    [request \in GenRequests |->
        { built \in attemptBuilds(request[1][1], request[1][2], request[2]) :
              ~levelAccepted(built.level) }] @@ <<>>

\* the arguments of the run
requestOf(run) == <<<<run.rows, run.cols>>, run.difficulty>>

InitGen ==
    /\ \E request \in GenRequests :
           generation = [rows |-> request[1][1], cols |-> request[1][2],
                         difficulty |-> request[2],
                         attempts |-> 0, status |-> "attempting", via |-> "none",
                         path |-> <<>>, level |-> <<>>]
    /\ search = <<>>
    /\ GameIdle /\ InputIdle /\ HeapIdle

\* an attempt whose generateHamiltonianPath returns null: continue
AttemptNoPath ==
    /\ generation.status = "attempting"
    /\ generation.attempts < maxAttempts
    /\ \E start \in Cells(generation.rows, generation.cols) :
          dfs(<<start>>, generation.rows, generation.cols) = {}
    /\ generation' = [generation EXCEPT !.attempts = @ + 1]
    /\ UNCHANGED <<gameVars, inputVars, heapVars, search>>

\* AttemptRejected with the loop test as attempts <= maxAttempts
AttemptRejectedPastCap ==
    /\ generation.status = "attempting"
    /\ generation.attempts <= maxAttempts
    /\ RejectedBuilds[requestOf(generation)] # {}
    /\ generation' = [generation EXCEPT !.attempts = @ + 1]
    /\ UNCHANGED <<gameVars, inputVars, heapVars, search>>

\* an attempt whose level isPuzzleSolvable rejects: next attempt
AttemptRejected ==
    /\ generation.status = "attempting"
    /\ generation.attempts < maxAttempts
    /\ RejectedBuilds[requestOf(generation)] # {}
    /\ generation' = [generation EXCEPT !.attempts = @ + 1]
    /\ UNCHANGED <<gameVars, inputVars, heapVars, search>>

\* an attempt whose level isPuzzleSolvable accepts: the level is returned
AttemptVerified ==
    /\ generation.status = "attempting"
    /\ generation.attempts < maxAttempts
    /\ \E built \in VerifiedBuilds[requestOf(generation)] :
          generation' = [generation EXCEPT !.attempts = @ + 1,
                                           !.status = "returned",
                                           !.via = "attempt",
                                           !.path = built.path,
                                           !.level = <<built.level>>]
    /\ UNCHANGED <<gameVars, inputVars, heapVars, search>>

\* the fallback after the last attempt, its path built: the level is returned
Fallback ==
    /\ generation.status = "attempting"
    /\ generation.attempts = maxAttempts
    /\ \E simplePath \in generateHamiltonianPath(generation.rows, generation.cols) :
          \E indices \in indicesToMark(simplePath,
                                       (generation.rows * generation.cols) \div 3) :
              generation' = [generation EXCEPT
                                !.status = "returned",
                                !.via = "fallback",
                                !.path = simplePath,
                                !.level = <<[rows |-> generation.rows,
                                             cols |-> generation.cols,
                                             initialValues |->
                                                 placeNumbers(simplePath, indices),
                                             walls |-> {}]>>]
    /\ UNCHANGED <<gameVars, inputVars, heapVars, search>>

\* the fallback after the last attempt, generateHamiltonianPath returning
\* null: simplePath.length throws a TypeError out of generateLevel
FallbackNoPath ==
    /\ generation.status = "attempting"
    /\ generation.attempts = maxAttempts
    /\ \E start \in Cells(generation.rows, generation.cols) :
          dfs(<<start>>, generation.rows, generation.cols) = {}
    /\ generation' = [generation EXCEPT !.status = "threw", !.via = "fallback",
                                        !.path = <<>>, !.level = <<>>]
    /\ UNCHANGED <<gameVars, inputVars, heapVars, search>>

NextGen ==
    AttemptNoPath \/ AttemptRejected \/ AttemptVerified \/ Fallback \/ FallbackNoPath

SpecGen == InitGen /\ [][NextGen]_vars

(***************************************************************************)
(* SpecSearch: one run of generateHamiltonianPath(rows, cols), one step    *)
(* per recursive call of dfs and one per return.  search holds the         *)
(* arguments, the random start, the shared path array and visited set, and *)
(* the stack of dfs calls: per call its `current` and the directions of    *)
(* its shuffled `dirs` it has called dfs for.  The shuffle is any order of *)
(* the four directions, so the next direction is any one not yet tried.    *)
(***************************************************************************)
SearchShapes == {<<1, 1>>, <<1, 2>>, <<1, 3>>, <<2, 2>>, <<2, 3>>, <<3, 3>>}

\* dirs with all eight directions in place of DIRECTIONS.slice(0, 4)
dfsDirsUnsliced == DIRECTIONS

\* DIRECTIONS.slice(0, 4)
dfsDirs == SubSeq(DIRECTIONS, 1, 4)

\* the backtrack of dfs with visited.delete left out
undoKeepingVisited(run, next) ==
    [run EXCEPT !.path = SubSeq(@, 1, Len(@) - 1)]

\* path.pop(); visited.delete(key of next)
undo(run, next) ==
    [run EXCEPT !.path = SubSeq(@, 1, Len(@) - 1),
                !.visited = @ \ {next}]

InitSearch ==
    /\ \E shape \in SearchShapes : \E start \in Cells(shape[1], shape[2]) :
           search = [rows |-> shape[1], cols |-> shape[2], start |-> start,
                     path |-> <<start>>, visited |-> {start},
                     calls |-> <<[current |-> start, tried |-> {}]>>,
                     status |-> "searching"]
    /\ generation = <<>>
    /\ GameIdle /\ InputIdle /\ HeapIdle

\* the dfs call on top of the stack
topCall == search.calls[Len(search.calls)]

\* dfs finds path.length === rows * cols: true is returned through every
\* caller, and generateHamiltonianPath returns path
SearchFound ==
    /\ search.status = "searching"
    /\ Len(search.path) = search.rows * search.cols
    /\ search' = [search EXCEPT !.status = "found", !.calls = <<>>]
    /\ UNCHANGED <<gameVars, inputVars, heapVars, generation>>

\* does `next` pass the test of the for-loop
open(run, next) ==
    /\ next.row >= 0 /\ next.row < run.rows
    /\ next.col >= 0 /\ next.col < run.cols
    /\ next \notin run.visited

\* the cell the top call looks at in direction d
nextOf(d) ==
    Coord(topCall.current.row + dfsDirs[d].row, topCall.current.col + dfsDirs[d].col)

\* the for-loop of the top call runs on to the next direction whose `next`
\* passes the test (the iterations before it do nothing): `next` is added
\* to visited, pushed on path, and dfs is called on it
SearchDescend ==
    /\ search.status = "searching"
    /\ Len(search.path) # search.rows * search.cols
    /\ \E d \in (1..Len(dfsDirs)) \ topCall.tried :
          /\ open(search, nextOf(d))
          /\ search' = [search EXCEPT
                           !.visited = @ \cup {nextOf(d)},
                           !.path = Append(@, nextOf(d)),
                           !.calls = Append(
                               [@ EXCEPT ![Len(@)].tried = @ \cup {d}],
                               [current |-> nextOf(d), tried |-> {}])]
    /\ UNCHANGED <<gameVars, inputVars, heapVars, generation>>

\* the for-loop of the top call runs to its end, no direction left passing
\* the test: the call returns false and its caller undoes the step
SearchBacktrack ==
    /\ search.status = "searching"
    /\ Len(search.path) # search.rows * search.cols
    /\ Len(search.calls) > 1
    /\ \A d \in (1..Len(dfsDirs)) \ topCall.tried : ~open(search, nextOf(d))
    /\ search' = [undo(search, topCall.current) EXCEPT
                      !.calls = SubSeq(@, 1, Len(@) - 1)]
    /\ UNCHANGED <<gameVars, inputVars, heapVars, generation>>

\* the for-loop of the first call runs to its end: dfs returns false and
\* generateHamiltonianPath returns null
SearchFailed ==
    /\ search.status = "searching"
    /\ Len(search.path) # search.rows * search.cols
    /\ Len(search.calls) = 1
    /\ \A d \in (1..Len(dfsDirs)) \ topCall.tried : ~open(search, nextOf(d))
    /\ search' = [search EXCEPT !.status = "null", !.calls = <<>>]
    /\ UNCHANGED <<gameVars, inputVars, heapVars, generation>>

NextSearch == SearchFound \/ SearchDescend \/ SearchBacktrack \/ SearchFailed

\* a started search keeps running until it returns
SpecSearch == InitSearch /\ [][NextSearch]_vars /\ WF_vars(NextSearch)

(***************************************************************************)
(* Properties of the state machine.                                        *)
(***************************************************************************)
path == gameState.currentPath
grid == gameState.grid
level == gameState.level
head == path[Len(path)]
AllCells == Cells(level.rows, level.cols)
OnPath(p) == p \in Range(path)
Adjacent(a, b) == Abs(a.row - b.row) + Abs(a.col - b.col) = 1

\* the values of the clues of the level lying on a path
CluesOn(lvl, cells) ==
    { lvl.initialValues[j].value : j \in
        { k \in 1..Len(lvl.initialValues) :
            Coord(lvl.initialValues[k].row, lvl.initialValues[k].col) \in cells } }

\* the two cells a wall lies between (section 3 of the specification)
WallEdge(wall) ==
    IF wall.orientation = "horizontal"
    THEN {Coord(wall.row, wall.col), Coord(wall.row + 1, wall.col)}
    ELSE {Coord(wall.row, wall.col), Coord(wall.row, wall.col + 1)}

Separated(walls, a, b) == \E wall \in walls : WallEdge(wall) = {a, b}

\* C1: currentPath and grid agree: the cell at currentPath[i] (0-based) has
\* visitedOrder i+1, and every cell off the path has visitedOrder null.
PathAndGridAgree ==
    /\ \A i \in 1..Len(path) : grid[path[i]].visitedOrder = i
    /\ \A p \in AllCells : ~OnPath(p) => grid[p].visitedOrder = null

\* C2: currentPath has no two equal consecutive entries and its entries are
\* pairwise distinct.
PathEntriesDistinct ==
    /\ \A i \in 1..(Len(path) - 1) : path[i] # path[i + 1]
    /\ \A i, j \in 1..Len(path) : i # j => path[i] # path[j]

\* C3: isComplete implies that every cell of the grid is on currentPath and
\* lastVisitedNumber is the maximum clue value of the level.
CompleteCoversGrid ==
    gameState.isComplete =>
        /\ \A p \in AllCells : OnPath(p)
        /\ gameState.lastVisitedNumber = maxNumberOf(level)

\* C4: for every target isValidMove rejects, makeMove returns the state it was
\* given (grid, currentPath, lastVisitedNumber, isComplete) and raises nothing.
InvalidTargetIsNoOp ==
    \A target \in Targets(level) :
        ~isValidMove(gameState, target) => makeMove(gameState, target) = gameState

\* a rejected call has just returned, and a neighbour of the head inside the
\* grid is among the rejected targets
InvalidTargetRejected ==
    /\ lastCall = [op |-> "makeMove", branch |-> "rejected"]
    /\ \E target \in AllCells :
          Adjacent(head, target) /\ ~isValidMove(gameState, target)

\* C5: a target on currentPath at any index other than length-2 (the interior
\* or the head) is rejected by isValidMove and leaves the state unchanged.
OnlyOneStepRewindAccepted ==
    \A target \in AllCells :
        (OnPath(target) /\ findIndex(path, target) # Len(path) - 2)
            => /\ ~isValidMove(gameState, target)
               /\ makeMove(gameState, target) = gameState

\* C6: with n >= 2 path entries, makeMove with target currentPath[n-2] returns
\* the first n-1 entries as path, a grid that differs only by visitedOrder null
\* on the removed cell, lastVisitedNumber the maximum clue value on the
\* retained path (0 if none), and isComplete false.
RewindRemovesLastEntry ==
    Len(path) >= 2 =>
        LET n == Len(path)
            after == makeMove(gameState, path[n - 1])
            retained == SubSeq(path, 1, n - 1)
        IN  /\ after.currentPath = retained
            /\ after.grid = [grid EXCEPT ![path[n]].visitedOrder = null]
            /\ after.lastVisitedNumber = SetMax(CluesOn(level, Range(retained)) \cup {0})
            /\ after.isComplete = FALSE
            /\ after.level = level

LastVisitedIsMaxClueOnPath ==
    gameState.lastVisitedNumber = SetMax(CluesOn(level, Range(path)) \cup {0})

\* a rewind has just taken the next clue off the path: the clue after
\* lastVisitedNumber is an unvisited neighbour of the head, with three clues
ClueRewound ==
    /\ lastCall = [op |-> "makeMove", branch |-> "rewind"]
    /\ maxNumberOf(level) >= 3
    /\ gameState.lastVisitedNumber >= 2
    /\ \E p \in AllCells :
          /\ Adjacent(head, p) /\ ~OnPath(p)
          /\ grid[p].isFixed /\ grid[p].value = gameState.lastVisitedNumber + 1

\* C9: walls block symmetrically and only their own edge: hasWall holds of two
\* cells exactly when a wall lies between them; a forward move across a wall is
\* rejected in both directions; the walls change the verdict of isValidMove on
\* no target that no wall separates from the head; and no two consecutive
\* entries of currentPath are separated by a wall.
WallsBlockOwnEdgeOnly ==
    /\ \A from, to \in AllCells :
          hasWall(level.walls, from, to) <=> Separated(level.walls, from, to)
    /\ \A target \in AllCells :
          (~OnPath(target) /\ Separated(level.walls, head, target))
              => ~isValidMove(gameState, target)
    /\ \A target \in Targets(level) :
          ~Separated(level.walls, head, target)
              => (isValidMove(gameState, target)
                    <=> isValidMove([gameState EXCEPT !.level.walls = {}], target))
    /\ \A i \in 1..(Len(path) - 1) : ~Separated(level.walls, path[i], path[i + 1])

\* a call across a wall has just been rejected: the target is an unvisited
\* neighbour of the head that would be accepted were the wall not there
MoveAcrossWallRejected ==
    /\ lastCall = [op |-> "makeMove", branch |-> "rejected"]
    /\ \E target \in AllCells :
          /\ Separated(level.walls, head, target)
          /\ ~OnPath(target)
          /\ isValidMove([gameState EXCEPT !.level.walls = {}], target)

\* C10 as stated: every target holding a clue whose value is not
\* lastVisitedNumber + 1 is rejected by isValidMove, on the path or not.
\* Stated of the states reached without any call on the path head, and of the
\* targets that are off the path or its second-to-last entry (the one rewind
\* the specification lets isValidMove accept).
ClueOutOfSequenceRejected ==
    headMoves = 0 =>
        \A target \in AllCells :
            /\ grid[target].isFixed
            /\ grid[target].value # gameState.lastVisitedNumber + 1
            /\ OnPath(target) => findIndex(path, target) = Len(path) - 2
            => ~isValidMove(gameState, target)

\* C10: every target off currentPath holding a clue whose value is not
\* lastVisitedNumber + 1 is rejected by isValidMove, adjacent or not, behind a
\* wall or not.
ClueOutOfSequenceOffPathRejected ==
    \A target \in AllCells :
        /\ ~OnPath(target)
        /\ grid[target].isFixed
        /\ grid[target].value # gameState.lastVisitedNumber + 1
        => ~isValidMove(gameState, target)

\* a step onto a clue out of sequence has just been rejected: the clue is an
\* unvisited neighbour of the head, not behind a wall
ClueOutOfSequenceMet ==
    /\ lastCall = [op |-> "makeMove", branch |-> "rejected"]
    /\ \E target \in AllCells :
          /\ ~OnPath(target) /\ Adjacent(head, target)
          /\ grid[target].visitedOrder = null
          /\ ~Separated(level.walls, head, target)
          /\ grid[target].isFixed
          /\ grid[target].value # gameState.lastVisitedNumber + 1

\* C11: moves are applied one at a time in delivery order with no lost
\* update: after the targets the input layer has delivered to onMove, several
\* in one animation-frame batch or across frames, the session's GameState is
\* the state the targets produce when each is applied, gated only by
\* completion, to the state the one before left.
MovesAppliedInDeliveryOrder == gameState = sequential

\* the object model and the value model of makeMove agree
HeapHoldsGameState == deref(heapCells, stateRef[1]) = gameState

\* C12: makeMove never mutates its input: after makeMove(s, t) returns, for
\* every target t, the object s holds the grid (cell by cell), currentPath,
\* lastVisitedNumber and isComplete it held before, and the returned state
\* refers to the Level of s; a state object kept by the caller holds the value
\* it had when kept, whatever moves were made since.
MakeMoveLeavesInputAlone ==
    /\ \A target \in Targets(stateRef[1].level) :
          LET s == stateRef[1]
              after == makeMoveOnHeap(heapCells, s, target)
          IN  /\ deref(after.store, s) = deref(heapCells, s)
              /\ after.state.level = s.level
    /\ snapshot # <<>> =>
          deref(heapCells, snapshot[1].object) = snapshot[1].value

\* a kept state of three path entries is still held after a rewind took the
\* caller's state below it
SnapshotOutlivesRewind ==
    /\ snapshot # <<>>
    /\ Len(snapshot[1].value.currentPath) >= 3
    /\ lastCall = [op |-> "makeMove", branch |-> "rewind"]
    /\ Len(stateRef[1].currentPath) < Len(snapshot[1].value.currentPath)

\* the state section 4.1 of the specification describes for a level
InitialShape(state) ==
    LET lvl == state.level
        iv == lvl.initialValues
        at(p) == { j \in 1..Len(iv) : Coord(iv[j].row, iv[j].col) = p }
        ones == { j \in 1..Len(iv) : iv[j].value = 1 }
    IN  /\ state.isComplete = FALSE
        /\ DOMAIN state.grid = Cells(lvl.rows, lvl.cols)
        /\ \A p \in Cells(lvl.rows, lvl.cols) :
              IF at(p) # {}
              THEN /\ state.grid[p].isFixed
                   /\ \E j \in at(p) : state.grid[p].value = iv[j].value
              ELSE /\ ~state.grid[p].isFixed
                   /\ state.grid[p].value = null
        /\ IF ones # {}
           THEN \E j \in ones :
                   LET start == Coord(iv[j].row, iv[j].col)
                   IN  /\ state.currentPath = <<start>>
                       /\ state.grid[start].visitedOrder = 1
                       /\ \A p \in Cells(lvl.rows, lvl.cols) \ {start} :
                              state.grid[p].visitedOrder = null
                       /\ state.lastVisitedNumber = 1
           ELSE /\ state.currentPath = <<>>
                /\ state.lastVisitedNumber = 0

\* C13: for a level with a clue 1, initializeGame returns currentPath =
\* [position of clue 1], visitedOrder 1 on that cell and null on every other,
\* each position of initialValues carrying its value with isFixed true and
\* every other cell value null and isFixed false, lastVisitedNumber 1 and
\* isComplete false; without a clue 1 the path is empty and lastVisitedNumber
\* is 0.  Reset gives this state from every reachable state of the level.
InitializeGameShape ==
    /\ lastCall.op \in {"initializeGame", "handleReset"} => InitialShape(gameState)
    /\ InitialShape(handleReset(gameState))
    /\ handleReset(gameState).level = gameState.level

\* Reset has just run on a level whose clue 1 is listed second, after its
\* other clue
ResetOnLevelWithLateClueOne ==
    /\ lastCall.op = "handleReset"
    /\ Len(gameState.level.initialValues) = 2
    /\ gameState.level.initialValues[2].value = 1

(***************************************************************************)
(* Properties of generateLevel (SpecGen).                                  *)
(***************************************************************************)
Returned == generation.status = "returned"
genLevel == generation.level[1]
genPath == generation.path
Max2(a, b) == IF a > b THEN a ELSE b

\* the clue fraction of a difficulty, as the divisor of the cell count
clueDivisor(difficulty) ==
    CASE difficulty = "easy" -> 3
      [] difficulty = "medium" -> 4
      [] difficulty = "hard" -> 5

\* the cells walked from a state by makeMove, one call per cell: did every
\* call extend the path by its target, and the state after the last call made
RECURSIVE walk(_, _)
walk(state, cells) ==
    IF cells = <<>>
    THEN [extended |-> TRUE, state |-> state]
    ELSE LET after == makeMove(state, Head(cells))
         IN  IF after.currentPath = Append(state.currentPath, Head(cells))
             THEN walk(after, Tail(cells))
             ELSE [extended |-> FALSE, state |-> after]

\* C14: in every level generateLevel returns with walls, no wall separates
\* two consecutive cells of the path the level was generated from, and every
\* wall is anchored at an internal adjacency: a horizontal wall has
\* row < rows-1, a vertical wall has col < cols-1.
WallsOffGeneratingPath ==
    (Returned /\ genLevel.walls # {}) =>
        /\ \A i \in 1..(Len(genPath) - 1) :
              ~Separated(genLevel.walls, genPath[i], genPath[i + 1])
        /\ \A wall \in genLevel.walls :
              IF wall.orientation = "horizontal"
              THEN wall.row >= 0 /\ wall.row < genLevel.rows - 1
              ELSE wall.col >= 0 /\ wall.col < genLevel.cols - 1

\* a 3x3 level is returned with a wall
WalledLevelReturned ==
    /\ Returned
    /\ genLevel.walls # {}
    /\ genLevel.rows = 3

\* C15: the generating path is an accepted solution of every level
\* generateLevel returns, by a verified attempt or by the fallback: makeMove
\* from initializeGame(level) with path[1], path[2], ..., path[rows*cols-1] in
\* order extends the path at every step and ends with isComplete true.
GeneratingPathSolves ==
    Returned =>
        LET run == walk(initializeGame(genLevel), Tail(genPath))
        IN  run.extended /\ run.state.isComplete

\* on every grid of two cells or more the walk along the generating path is
\* accepted step by step and ends complete
GeneratingPathSolvesFromTwoCells ==
    (Returned /\ genLevel.rows * genLevel.cols >= 2) =>
        LET run == walk(initializeGame(genLevel), Tail(genPath))
        IN  run.extended /\ run.state.isComplete

\* C16: in every level generateLevel returns, by a verified attempt or by the
\* fallback, the clue values are exactly 1..maxNumber without gap or
\* duplicate, the clue positions are pairwise distinct and every one lies in
\* [0,rows) x [0,cols).
ClueValuesAndPositions ==
    Returned =>
        LET iv == genLevel.initialValues
        IN  /\ { iv[j].value : j \in 1..Len(iv) } = 1..maxNumberOf(genLevel)
            /\ \A i, j \in 1..Len(iv) :
                  i # j => /\ iv[i].value # iv[j].value
                           /\ Coord(iv[i].row, iv[i].col) # Coord(iv[j].row, iv[j].col)
            /\ \A j \in 1..Len(iv) :
                  Coord(iv[j].row, iv[j].col) \in Cells(genLevel.rows, genLevel.cols)

\* a level of three clues is returned by a verified attempt
ThreeCluesReturned ==
    /\ Returned
    /\ generation.via = "attempt"
    /\ Len(genLevel.initialValues) = 3

\* C17: every level generateLevel returns was accepted by isPuzzleSolvable or
\* comes from the fallback and has no walls; no level with walls that failed
\* verification is returned.
ReturnedVerifiedOrFallback ==
    Returned =>
        /\ \/ generation.via = "attempt" /\ isPuzzleSolvable(genLevel)
           \/ generation.via = "fallback" /\ genLevel.walls = {}
        /\ genLevel.walls # {} => isPuzzleSolvable(genLevel)

\* a level is returned at a second or later attempt of a call some of whose
\* attempts build levels the verifier rejects
ReturnedAfterRejection ==
    /\ Returned
    /\ generation.via = "attempt"
    /\ generation.attempts >= 2
    /\ RejectedBuilds[requestOf(generation)] # {}

\* per call, does the grid have a Hamiltonian path
PathExists ==
    [request \in GenRequests |->
        generateHamiltonianPath(request[1][1], request[1][2]) # {}] @@ <<>>

\* C18: generateLevel never surfaces an error to its caller: on every grid
\* size with a Hamiltonian path and for every difficulty, when all 50
\* attempts have failed the fallback returns a level, whatever start cell its
\* one path-building call picks.
GenerateLevelNeverThrows ==
    PathExists[requestOf(generation)] => generation.status # "threw"

\* C19: the fallback places as many clues as a normal attempt at the same
\* difficulty: max(2, floor(rows*cols*fraction)) with fraction 1/3 for easy,
\* 1/4 for medium and 1/5 for hard.
FallbackClueCount ==
    (Returned /\ generation.via = "fallback") =>
        Len(genLevel.initialValues)
            = Max2(2, (generation.rows * generation.cols)
                         \div clueDivisor(generation.difficulty))

\* the clues of a level built from a generating path, as the claim C20 has them
ClueShape(cells, lvl, difficulty) ==
    LET iv == lvl.initialValues
        n == Len(cells)
        at(j) == findIndex(cells, Coord(iv[j].row, iv[j].col))
    IN  n >= 2 =>
          /\ Len(iv) = Max2(2, (lvl.rows * lvl.cols) \div clueDivisor(difficulty))
          /\ \E j \in 1..Len(iv) : iv[j].value = 1 /\ at(j) = 0
          /\ \E j \in 1..Len(iv) : iv[j].value = maxNumberOf(lvl) /\ at(j) = n - 1
          /\ \A i, j \in 1..Len(iv) : at(i) < at(j) => iv[i].value < iv[j].value

\* C20: for a generating path of two cells or more, the clue placement of a
\* normal attempt yields exactly max(2, floor(rows*cols*fraction)) clues, value
\* 1 on path[0], the top value on the last path cell, and values that
\* increase strictly with the index of the clue's cell along the path; of
\* the level an attempt returns and of the levels the verifier rejected.
AttemptClueShape ==
    /\ (Returned /\ generation.via = "attempt")
          => ClueShape(genPath, genLevel, generation.difficulty)
    /\ (generation.status = "attempting" /\ generation.attempts >= 1)
          => \A built \in RejectedBuilds[requestOf(generation)] :
                 ClueShape(built.path, built.level, generation.difficulty)

\* a 1x9 level of three clues, one of them inside the path, is returned by an
\* attempt
InnerClueReturned ==
    /\ Returned
    /\ generation.via = "attempt"
    /\ generation.rows = 1 /\ generation.cols = 9
    /\ Len(genLevel.initialValues) = 3

(***************************************************************************)
(* Properties of the path search (SpecSearch).                             *)
(***************************************************************************)
SearchCells == Cells(search.rows, search.cols)

\* is there a walk from `cell` through every cell of `rest` exactly once by
\* steps between 4-neighbours
RECURSIVE covers(_, _)
covers(cell, rest) ==
    \/ rest = {}
    \/ \E n \in rest : Adjacent(cell, n) /\ covers(n, rest \ {n})

\* the step-by-step search returns what the results taken for the level
\* generator (dfs above) say it can return
SearchAgreesWithDfs ==
    /\ search.status = "found" =>
           search.path \in dfs(<<search.start>>, search.rows, search.cols)
    /\ search.status = "null" =>
           dfs(<<search.start>>, search.rows, search.cols) = {}

\* C21: a path returned by generateHamiltonianPath(rows, cols) has exactly
\* rows*cols entries, holds every cell of the grid exactly once, has every
\* entry within bounds, and every two consecutive entries are at Manhattan
\* distance exactly 1
HamiltonianPathShape ==
    search.status = "found" =>
        LET found == search.path
        IN  /\ Len(found) = search.rows * search.cols
            /\ \A cell \in SearchCells :
                   Cardinality({i \in 1..Len(found) : found[i] = cell}) = 1
            /\ \A i \in 1..Len(found) :
                   /\ found[i].row >= 0 /\ found[i].row < search.rows
                   /\ found[i].col >= 0 /\ found[i].col < search.cols
            /\ \A i \in 1..(Len(found) - 1) :
                   Abs(found[i].row - found[i + 1].row)
                       + Abs(found[i].col - found[i + 1].col) = 1

\* a path is returned for a grid of three rows and three columns
PathFoundOnThreeByThree ==
    search.status = "found" /\ search.rows = 3 /\ search.cols = 3

\* while a search runs, visited and path hold exactly the cells of the
\* current branch: the `current` of every dfs call on the stack, in order
SearchOnCurrentBranch ==
    search.status = "searching" =>
        /\ search.path = [i \in 1..Len(search.calls) |-> search.calls[i].current]
        /\ search.visited = Range(search.path)

\* null is returned only if no Hamiltonian path starts at the start cell
NullOnlyWithoutPath ==
    search.status = "null" => ~covers(search.start, SearchCells \ {search.start})

\* C27: the path search is complete and terminates: null is returned only
\* if no Hamiltonian path over 4-neighbour adjacency starts at the start
\* cell, whatever order the shuffles produce; on every backtrack visited and
\* path are restored to exactly the cells of the current branch; and every
\* search returns
SearchCompleteAndTerminates ==
    /\ [](SearchOnCurrentBranch /\ NullOnlyWithoutPath)
    /\ <>(search.status # "searching")

\* null is returned for a grid of three rows and three columns, after every
\* branch from the start cell was tried and undone
NullOnThreeByThree ==
    search.status = "null" /\ search.rows = 3 /\ search.cols = 3

(***************************************************************************)
(* Properties of the verifier (SpecGen).                                   *)
(***************************************************************************)
\* the segments isPuzzleSolvable finds from clue i on, each with the
\* cumulative visited set its search started with; it ends at the first
\* clue pair without a route
RECURSIVE verifierSegments(_, _, _)
verifierSegments(i, visited, lvl) ==
    IF i > maxNumberOf(lvl)
    THEN <<>>
    ELSE IF i = 1
         THEN verifierSegments(2, visited \cup {numberPositions(lvl, 1)}, lvl)
         ELSE LET route == findPath(numberPositions(lvl, i - 1),
                                    numberPositions(lvl, i), visited, lvl)
              IN  IF route = <<>>
                  THEN <<>>
                  ELSE <<[route |-> route, before |-> visited]>>
                       \o verifierSegments(i + 1, visited \cup Range(route), lvl)

\* the cells that steps between 4-neighbours reach from the cells of S
\* without crossing a wall of lvl or entering a cell of `avoid`
RECURSIVE orthogonalReach(_, _, _)
orthogonalReach(S, avoid, lvl) ==
    LET more == { c \in Cells(lvl.rows, lvl.cols) \ (S \cup avoid) :
                      \E s \in S : Adjacent(s, c) /\ ~Separated(lvl.walls, s, c) }
    IN  IF more = {} THEN S ELSE orthogonalReach(S \cup more, avoid, lvl)

\* the level of the run, accepted by isPuzzleSolvable
Verified == Returned /\ generation.via = "attempt"

\* C22: isPuzzleSolvable(level) returns true only if every consecutive clue
\* pair (i, i+1) has a route from clue i to clue i+1 made of orthogonal unit
\* steps between 4-neighbours, none crossing a wall of the level and none
\* entering a cell used by an earlier segment
VerifiedRoutesOrthogonal ==
    Verified =>
        LET segments == verifierSegments(1, {}, genLevel)
        IN  /\ Len(segments) = maxNumberOf(genLevel) - 1
            /\ \A k \in 1..Len(segments) :
                   numberPositions(genLevel, k + 1) \in
                       orthogonalReach({numberPositions(genLevel, k)},
                                       segments[k].before \ {numberPositions(genLevel, k)},
                                       genLevel)

\* the final size check of the verifier changes nothing on lvl: the
\* cumulative visited set holds at most rows*cols cells and the result is
\* true exactly when every consecutive clue pair got a route
SizeCheckIdleOn(lvl) ==
    /\ Cardinality(visitNumbers(1, {}, lvl).visited) <= lvl.rows * lvl.cols
    /\ isPuzzleSolvable(lvl) <=>
           Len(verifierSegments(1, {}, lvl)) = maxNumberOf(lvl) - 1

RECURSIVE concatenated(_)
concatenated(segments) ==
    IF segments = <<>>
    THEN <<>>
    ELSE IF Len(segments) = 1
         THEN segments[1].route
         ELSE SubSeq(segments[1].route, 1, Len(segments[1].route) - 1)
              \o concatenated(Tail(segments))

\* C28: whenever isPuzzleSolvable(level) returns true, the clue-to-clue
\* segments it found, concatenated in clue order, visit no cell twice: each
\* segment is a simple route, and a segment shares no cell with any earlier
\* segment except its own start clue
VerifiedSegmentsDisjoint ==
    Verified =>
        LET segments == verifierSegments(1, {}, genLevel)
            cells == concatenated(segments)
        IN  /\ \A i, j \in 1..Len(cells) : cells[i] = cells[j] => i = j
            /\ \A k \in 1..Len(segments) :
                   LET route == segments[k].route
                   IN  /\ route[1] = numberPositions(genLevel, k)
                       /\ route[Len(route)] = numberPositions(genLevel, k + 1)
                       /\ \A i, j \in 1..Len(route) : route[i] = route[j] => i = j
                       /\ \A m \in 1..(k - 1) :
                              Range(route) \cap Range(segments[m].route)
                                  \subseteq {route[1]}

\* a level of three clues is accepted, its second segment found around the
\* cells of the first
TwoSegmentsVerified ==
    /\ Verified
    /\ Len(verifierSegments(1, {}, genLevel)) = 2
    /\ Len(verifierSegments(1, {}, genLevel)[2].route) > 2

\* C29: the verifier and the move validator agree on what a wall blocks:
\* for the wall list of a level and every pair of orthogonally adjacent
\* in-bounds cells (from, to), isBlocked(from, to) of isPuzzleSolvable equals
\* hasWall(walls, from, to) of the state machine, and both equal the test
\* isWallBlocking makes of the step from `from` to `to` in wall placement
WallTestsAgree ==
    Returned =>
        \A from, to \in Cells(genLevel.rows, genLevel.cols) :
            Adjacent(from, to) =>
                /\ isBlocked(genLevel.walls, from, to) = hasWall(genLevel.walls, from, to)
                /\ hasWall(genLevel.walls, from, to)
                       = (\E w \in genLevel.walls : isWallBlocking(w, <<from, to>>))

\* a level is returned with a wall that all three tests find between two
\* cells, in both directions
WallFoundByAllTests ==
    /\ Returned
    /\ \E from, to \in Cells(genLevel.rows, genLevel.cols) :
           /\ Adjacent(from, to)
           /\ isBlocked(genLevel.walls, from, to) /\ isBlocked(genLevel.walls, to, from)
           /\ hasWall(genLevel.walls, from, to) /\ hasWall(genLevel.walls, to, from)
           /\ \E w \in genLevel.walls :
                  isWallBlocking(w, <<from, to>>) /\ isWallBlocking(w, <<to, from>>)

\* how far a run of generateLevel has come: the attempts made, and one
\* more once it has returned or thrown
attemptMeasure ==
    generation.attempts + (IF generation.status = "attempting" THEN 0 ELSE 1)

\* the attempts counter and the way the run ended
AttemptCapState ==
    /\ generation.attempts \in 0..maxAttempts
    /\ attemptMeasure <= maxAttempts + 1
    /\ generation.status = "attempting" =>
           generation.via = "none" /\ generation.level = <<>>
    /\ generation.via = "fallback" => generation.attempts = maxAttempts
    /\ generation.via = "attempt" =>
           /\ Returned
           /\ generation.attempts >= 1
           /\ isPuzzleSolvable(genLevel)

\* one step of a run: an attempt, counted, that fails or returns its level,
\* or the fallback once maxAttempts attempts have failed
AttemptCapStep ==
    /\ generation.status = "attempting"
    /\ attemptMeasure' > attemptMeasure
    /\ \/ /\ generation'.attempts = generation.attempts + 1
          /\ generation'.via \in {"none", "attempt"}
          /\ generation'.via = "none" <=> generation'.status = "attempting"
       \/ /\ generation'.attempts = generation.attempts
          /\ generation.attempts = maxAttempts
          /\ generation'.via = "fallback"

\* C24: generateLevel runs the build-path / place-clues / place-walls /
\* verify pipeline at most 50 times per call, counting the attempts in which
\* path building returned null, then terminates (every step brings the run
\* closer to its end, at most 51 steps away); the fallback is produced only
\* after exactly 50 failed attempts, and a verified level is returned at the
\* attempt that passes verification
GenerateLevelAttemptCap ==
    /\ []AttemptCapState
    /\ [][AttemptCapStep]_generation

\* the fallback level is returned after fifty failed attempts
FallbackAfterFiftyAttempts ==
    /\ Returned
    /\ generation.via = "fallback"
    /\ generation.attempts = maxAttempts

(***************************************************************************)
(* Properties of the state machine, continued (Spec).                      *)
(***************************************************************************)
\* may the path be extended to `target`, by the rules of the specification
Extendable(target) ==
    /\ target \in AllCells
    /\ Adjacent(head, target)
    /\ grid[target].visitedOrder = null
    /\ ~Separated(level.walls, head, target)
    /\ CluesOn(level, {target}) \subseteq {gameState.lastVisitedNumber + 1}

\* is `after` the state with the path extended to `target`
ExtendedTo(after, target) ==
    /\ after.level = level
    /\ after.currentPath = Append(path, target)
    /\ after.grid = [grid EXCEPT ![target].visitedOrder = Len(path) + 1]
    /\ after.lastVisitedNumber =
           (IF CluesOn(level, {target}) = {}
            THEN gameState.lastVisitedNumber
            ELSE SetMax(CluesOn(level, {target})))

\* C25: for every reachable GameState and every target that is not in
\* currentPath, makeMove extends the path (appends the target, stamps its
\* visitedOrder with the new path length, sets lastVisitedNumber to the
\* target's clue value when it holds a clue) if and only if the target is
\* inside the grid, at Manhattan distance exactly 1 from the path head, has
\* visitedOrder null, is not separated from the head by a wall, and is not a
\* clue or is the clue lastVisitedNumber + 1; otherwise the state is unchanged
OffPathMoveExtendsOrNothing ==
    \A target \in Targets(level) :
        ~OnPath(target) =>
            IF Extendable(target)
            THEN ExtendedTo(makeMove(gameState, target), target)
            ELSE makeMove(gameState, target) = gameState

\* the path has just been extended onto the clue next in sequence, on a
\* level with a wall, in a session without calls on the path head
ExtendedOntoNextClue ==
    /\ lastCall = [op |-> "makeMove", branch |-> "extended"]
    /\ headMoves = 0
    /\ gameState.lastVisitedNumber >= 2
    /\ CluesOn(level, {head}) = {gameState.lastVisitedNumber}
    /\ level.walls # {}

\* C26: isComplete is derived from the path in every reachable state, the
\* state returned by initializeGame included: whenever currentPath has
\* rows*cols entries and lastVisitedNumber equals the level's maximum clue
\* value, isComplete is true
CompleteWhenDefinitionMet ==
    (/\ Len(path) = level.rows * level.cols
     /\ gameState.lastVisitedNumber = maxNumberOf(level))
        => gameState.isComplete

(***************************************************************************)
(* Properties of the move queue (SpecDelivery).                            *)
(***************************************************************************)
\* the targets passed to onMove, followed by those waiting in the queue,
\* are the targets pushed, in the order pushed: none dropped, none twice
DeliveredThenQueuedIsPushed ==
    pushedTargets = deliveredTargets \o moveQueueRef

\* after every handler a frame is pending whenever the queue is not empty
FramePendingWhileQueued ==
    moveQueueRef # <<>> => animationFrameRef # <<>>

\* C30: while the Grid component stays mounted, every target pushed onto
\* the move queue by queueMove is eventually passed to onMove, exactly once
\* and in the order pushed, under any interleaving of pointer-down,
\* pointer-move, pointer-up/leave events and animation frames: a frame is
\* pending whenever the queue is non-empty after a handler returns, and no
\* target is dropped or delivered twice (a queue that holds targets leads to
\* a moment at which every target pushed so far has been delivered)
QueuedTargetsDelivered ==
    /\ [](DeliveredThenQueuedIsPushed /\ FramePendingWhileQueued)
    /\ (moveQueueRef # <<>>) ~> (deliveredTargets = pushedTargets)

\* every target of a session has been passed to onMove, the last of them
\* pushed after the first had been delivered and the pointer released
AllDeliveredAfterRelease ==
    /\ Len(deliveredTargets) = MaxPushed
    /\ deliveredTargets = pushedTargets
    /\ ~isDragging
    /\ animationFrameRef = <<>>

====
